---- MODULE Spec2Model ----
(***************************************************************************)
(* Model of crypto/keyring.go: the KeyRing orchestration layer over the    *)
(* OpenPGP engine.  A KeyRing is an ordered list of entities; every        *)
(* exported operation of keyring.go is one action.  The engine             *)
(* (golang.org/x/crypto/openpgp) and the armor codec are collaborators:    *)
(* their outcomes are inputs of the actions, drawn with \E.                *)
(***************************************************************************)
EXTENDS Integers, Sequences, FiniteSets, TLC

VARIABLES
    rings,  \* the KeyRing objects alive, addressed by position (a *KeyRing)
    before, \* the key rings as the most recent call found them
    res     \* the most recent call: its arguments and everything it returned

vars == <<rings, before, res>>

-----------------------------------------------------------------------------
(* Bounds of the model *)

MaxEntities == 2    \* entities per key ring
MaxSubkeys  == 1    \* subkeys per entity
MaxRings    == 2    \* key rings handed to FilterExpiredKeys
MaxContactEntities == 3  \* entities in all the rings handed to FilterExpiredKeys
MaxBody     == 1    \* bytes of a message body
MaxKeyObjects == 2  \* key objects in a JSON document

Passphrases == {"p1", "p2"}
NoPass      == "none"

RECURSIVE SeqsUpTo(_, _)
SeqsUpTo(S, n) ==
    IF n = 0 THEN {<<>>}
    ELSE LET shorter == SeqsUpTo(S, n - 1)
         IN  shorter \cup {Append(s, x) : s \in {t \in shorter : Len(t) = n - 1}, x \in S}

-----------------------------------------------------------------------------
(* Data: packet.PrivateKey, openpgp.Subkey, openpgp.Entity, KeyRing *)

\* A *packet.PrivateKey: nil (present = FALSE) or a key with its Encrypted
\* flag; pass is the passphrase that protects the key material.
NoPrivateKey == [present |-> FALSE, Encrypted |-> FALSE, pass |-> NoPass]
LockedKey(p) == [present |-> TRUE, Encrypted |-> TRUE, pass |-> p]
PlainKey     == [present |-> TRUE, Encrypted |-> FALSE, pass |-> NoPass]

\* An openpgp.Subkey: its private key, the capability flags of its binding
\* signature, and what Sig.KeyExpired(now) answers.
MkSubkey(pk, valid, storage, comms, expired) ==
    [PrivateKey |-> pk, FlagsValid |-> valid, FlagEncryptStorage |-> storage,
     FlagEncryptCommunications |-> comms, KeyExpired |-> expired]

\* An openpgp.Entity.
MkEntity(pk, subkeys, keyId) ==
    [PrivateKey |-> pk, Subkeys |-> subkeys, KeyId |-> keyId,
     Identities |-> <<[Name |-> keyId, Email |-> keyId]>>]

\* Key ids follow the position when parsed.
Numbered(entities) ==
    [i \in 1..Len(entities) |->
        [entities[i] EXCEPT !.KeyId = i,
                            !.Identities = <<[Name |-> i, Email |-> i]>>]]

\* A KeyRing.
MkKeyRing(entities, firstKeyID) == [entities |-> entities, FirstKeyID |-> firstKeyID]

\* Errors are values; at tells which engine call produced the error.
Err(kind)      == [kind |-> kind, at |-> 0]
ErrAt(kind, i) == [kind |-> kind, at |-> i]
Nil            == Err("nil")
errKeyringNotUnlocked == Err("errKeyringNotUnlocked")
ErrSignatureExpired   == Err("ErrSignatureExpired")

\* Message bodies, and the messages the engine may be given: what
\* openpgp.ReadMessage answers (readErr), whether the message is signed, what
\* the signature check concludes once the body has been read (verdict), the
\* body, and how reading the body ends (fail): with end-of-input ("none"), with
\* an error before the end ("hard"), or with ErrSignatureExpired ("expired").
Bodies == SeqsUpTo({"a"}, MaxBody)

Messages ==
    { [readErr |-> "hard", IsSigned |-> FALSE, verdict |-> "nil", body |-> <<>>,
       fail |-> "none"] }
    \cup { [readErr |-> "nil", IsSigned |-> FALSE, verdict |-> "nil", body |-> b,
            fail |-> f] : b \in Bodies, f \in {"none", "hard"} }
    \cup { [readErr |-> "nil", IsSigned |-> TRUE, verdict |-> v, body |-> b,
            fail |-> f] : v \in {"nil", "invalid"}, b \in Bodies,
                          f \in {"none", "hard"} }
    \cup { [readErr |-> e, IsSigned |-> TRUE, verdict |-> "expired",
            body |-> b, fail |-> f] : e \in {"nil", "expired"}, b \in Bodies,
                                      f \in {"none", "hard", "expired"} }

NoMessage == [readErr |-> "nil", IsSigned |-> FALSE, verdict |-> "nil",
              body |-> <<>>, fail |-> "none"]

\* The decrypted reader handed to a caller: what is left to read, what the
\* caller has read, whether end-of-input was reported (eof), and the error
\* of the last Read.
NoStream == [open |-> FALSE, rest |-> <<>>, read |-> <<>>, eof |-> FALSE,
             fail |-> "none", err |-> Nil]

\* The record of a call before any call was made, and the fields every call
\* fills: its arguments (recv, sign, pass, contactKeys, msg, armor), what the
\* collaborators did (eng, calls), what it returned
\* (err, sel, filteredKeys, wc, str, signed, stream, ids), what it wrote to the
\* caller's writer (w), and the engine state behind a Signature (md).
NoCall ==
    [op |-> "none", recv |-> 0, sign |-> 0, pass |-> NoPass, err |-> Nil,
     n |-> 0, sel |-> 0, contactKeys |-> <<>>, filteredKeys |-> <<>>,
     msg |-> NoMessage, w |-> <<>>, wc |-> FALSE, str |-> <<>>,
     signed |-> FALSE, SignatureError |-> Nil, stream |-> NoStream,
     calls |-> 0, ids |-> <<>>, armor |-> "ok", eng |-> "ok"]

-----------------------------------------------------------------------------
(* packet.PrivateKey.Decrypt, as keyring.go relies on it: a key that is not
   encrypted is left alone, the right passphrase clears Encrypted, a wrong one
   fails and leaves the key encrypted. *)

PrivateKeyDecrypt(pk, passphrase, at) ==
    IF ~pk.Encrypted THEN [key |-> pk, err |-> Nil]
    ELSE IF pk.pass = passphrase
         THEN [key |-> [pk EXCEPT !.Encrypted = FALSE], err |-> Nil]
         ELSE [key |-> pk, err |-> ErrAt("ErrDecrypt", at)]

-----------------------------------------------------------------------------
(* KeyRing.Unlock *)

\* A component is <<i, j>>: the primary key of entity i (j = 0) or its subkey j.
GetKey(entities, c) ==
    IF c[2] = 0 THEN entities[c[1]].PrivateKey
    ELSE entities[c[1]].Subkeys[c[2]].PrivateKey

SetKey(entities, c, pk) ==
    IF c[2] = 0 THEN [entities EXCEPT ![c[1]].PrivateKey = pk]
    ELSE [entities EXCEPT ![c[1]].Subkeys[c[2]].PrivateKey = pk]

\* The inner loop of the key list: the subkeys of entity i from position j on.
RECURSIVE SubkeyKeys(_, _, _)
SubkeyKeys(e, i, j) ==
    IF j > Len(e.Subkeys) THEN <<>>
    ELSE LET subKey == e.Subkeys[j]
             take   == /\ subKey.PrivateKey.present
                       /\ \/ ~subKey.FlagsValid
                          \/ subKey.FlagEncryptStorage
                          \/ subKey.FlagEncryptCommunications
         IN  (IF take THEN <<<<i, j>>>> ELSE <<>>) \o SubkeyKeys(e, i, j + 1)

\* "Build a list of keys to decrypt": the outer loop, from entity i on.
RECURSIVE UnlockKeys(_, _)
UnlockKeys(entities, i) ==
    IF i > Len(entities) THEN <<>>
    ELSE LET e == entities[i]
         IN  (IF e.PrivateKey.present THEN <<<<i, 0>>>> ELSE <<>>)
             \o SubkeyKeys(e, i, 1) \o UnlockKeys(entities, i + 1)

\* The decryption loop over keys[k..]: err is overwritten by every attempt.
RECURSIVE UnlockLoop(_, _, _, _, _, _)
UnlockLoop(entities, keys, k, passphrase, err, n) ==
    IF k > Len(keys) THEN [entities |-> entities, err |-> err, n |-> n]
    ELSE LET key == GetKey(entities, keys[k])
         IN  IF ~key.Encrypted
             THEN UnlockLoop(entities, keys, k + 1, passphrase, err, n)
             ELSE LET d == PrivateKeyDecrypt(key, passphrase, k)
                  IN  UnlockLoop(SetKey(entities, keys[k], d.key), keys, k + 1,
                                 passphrase, d.err,
                                 IF d.err = Nil THEN n + 1 ELSE n)

\* Unlock that reports the last error although some key was decrypted.
UnlockResultAllOrNothing(entities, passphrase) ==
    LET keys == UnlockKeys(entities, 1)
    IN  IF Len(keys) = 0
        THEN [entities |-> entities, err |-> Err("errNoPrivateKey"), n |-> 0]
        ELSE LET r == UnlockLoop(entities, keys, 1, passphrase, Nil, 0)
             IN  [entities |-> r.entities, err |-> r.err, n |-> r.n]

\* What Unlock leaves and returns.
UnlockResult(entities, passphrase) ==
    LET keys == UnlockKeys(entities, 1)
    IN  IF Len(keys) = 0
        THEN [entities |-> entities, err |-> Err("errNoPrivateKey"), n |-> 0]
        ELSE LET r == UnlockLoop(entities, keys, 1, passphrase, Nil, 0)
             IN  [entities |-> r.entities,
                  err |-> IF r.n = 0 THEN r.err ELSE Nil,
                  n |-> r.n]

Unlock(k, passphrase) ==
    LET r == UnlockResult(rings[k].entities, passphrase)
    IN  /\ rings' = [rings EXCEPT ![k].entities = r.entities]
        /\ before' = rings
        /\ res' = [NoCall EXCEPT !.op = "Unlock", !.recv = k, !.pass = passphrase,
                                 !.err = r.err, !.n = r.n]

-----------------------------------------------------------------------------
(* KeyRing.GetSigningEntity *)

\* The scan from entity i on: every encrypted primary key met is given the
\* passphrase; the first entity whose key is then decrypted is selected.
RECURSIVE SigningScan(_, _, _)
SigningScan(entities, i, passphrase) ==
    IF i > Len(entities) THEN [entities |-> entities, sel |-> 0]
    ELSE LET e == entities[i]
         IN  IF ~e.PrivateKey.present
             THEN SigningScan(entities, i + 1, passphrase)
             ELSE LET pk == PrivateKeyDecrypt(e.PrivateKey, passphrase, i).key
                      es == [entities EXCEPT ![i].PrivateKey = pk]
                  IN  IF ~pk.Encrypted
                      THEN [entities |-> es, sel |-> i]
                      ELSE SigningScan(es, i + 1, passphrase)

GetSigningEntity(k, passphrase) ==
    LET r == SigningScan(rings[k].entities, 1, passphrase)
    IN  /\ rings' = [rings EXCEPT ![k].entities = r.entities]
        /\ before' = rings
        /\ res' = [NoCall EXCEPT !.op = "GetSigningEntity", !.recv = k,
                                 !.pass = passphrase, !.sel = r.sel]

-----------------------------------------------------------------------------
(* Entity selection *)

\* "for _, e := range entities": the first entity, from i on, whose private
\* key is present and decrypted; 0 when there is none.  The entities are
\* handed back as the loop leaves them.
RECURSIVE FirstUnlockedFrom(_, _)
FirstUnlockedFrom(entities, i) ==
    IF i > Len(entities) THEN 0
    ELSE IF entities[i].PrivateKey.present /\ ~entities[i].PrivateKey.Encrypted
         THEN i
         ELSE FirstUnlockedFrom(entities, i + 1)

\* A selection that gives every encrypted key it meets a passphrase.
FirstUnlockedDecrypting(entities) == SigningScan(entities, 1, "p1")

FirstUnlocked(entities) ==
    [entities |-> entities, sel |-> FirstUnlockedFrom(entities, 1)]

-----------------------------------------------------------------------------
(* KeyRing.Encrypt, EncryptArmored, EncryptString, EncryptSymmetric *)

\* openpgp.Encrypt / EncryptText through EncryptCore: the engine writes the
\* key packet to w and hands back a writer, or fails.
EncryptCore(w, encryptEntities, signEntity, eng) ==
    IF eng = "encryptErr" \/ Len(encryptEntities) = 0
    THEN [w |-> w, wc |-> FALSE, err |-> Err("engine")]
    ELSE [w |-> Append(w, "keyPacket"), wc |-> TRUE, err |-> Nil]

\* kr.Encrypt(w, sign, ...) on heap[k] with signer heap[s] (s = 0: sign is nil).
EncryptTo(heap, k, s, w, eng) ==
    LET encryptEntities == IF Len(heap[k].entities) = 0 THEN <<>> ELSE <<1>>
        f     == IF s = 0 THEN [entities |-> <<>>, sel |-> 0]
                 ELSE FirstUnlocked(heap[s].entities)
        heap2 == IF s = 0 THEN heap ELSE [heap EXCEPT ![s].entities = f.entities]
    IN  IF s # 0 /\ f.sel = 0
        THEN [heap |-> heap2, w |-> w, wc |-> FALSE, err |-> errKeyringNotUnlocked]
        ELSE LET c == EncryptCore(w, encryptEntities, f.sel, eng)
             IN  [heap |-> heap2, w |-> c.w, wc |-> c.wc, err |-> c.err]

Encrypt(k, s, eng) ==
    LET r == EncryptTo(rings, k, s, <<>>, eng)
    IN  /\ rings' = r.heap
        /\ before' = rings
        /\ res' = [NoCall EXCEPT !.op = "Encrypt", !.recv = k, !.eng = eng, !.sign = s,
                                 !.w = r.w, !.wc = r.wc, !.err = r.err]

\* armorUtils.ArmorWithTypeBuffered(w, type): the armor writer puts the head
\* of the envelope on w when it is made, or fails.
ArmorWithTypeBuffered(w, eng) ==
    IF eng = "armorErr" THEN [w |-> w, err |-> Err("engine")]
    ELSE [w |-> Append(w, "armorBegin"), err |-> Nil]

\* Closing the armor writer puts the foot of the envelope on w.
ArmorClose(w) == Append(w, "armorEnd")

\* kr.EncryptArmored(w, sign).
EncryptArmoredTo(heap, k, s, w, eng) ==
    LET a == ArmorWithTypeBuffered(w, eng)
    IN  IF a.err # Nil
        THEN [heap |-> heap, w |-> a.w, wc |-> FALSE, err |-> a.err]
        ELSE LET e == EncryptTo(heap, k, s, a.w, eng)
             IN  IF e.err # Nil
                 THEN [heap |-> e.heap, w |-> ArmorClose(e.w), wc |-> FALSE,
                       err |-> e.err]
                 ELSE [heap |-> e.heap, w |-> e.w, wc |-> TRUE, err |-> Nil]

EncryptArmored(k, s, eng) ==
    LET r == EncryptArmoredTo(rings, k, s, <<>>, eng)
    IN  /\ rings' = r.heap
        /\ before' = rings
        /\ res' = [NoCall EXCEPT !.op = "EncryptArmored", !.recv = k, !.eng = eng, !.sign = s,
                                 !.w = r.w, !.wc = r.wc, !.err = r.err]

\* kr.EncryptString(s, sign): the envelope is built in a buffer of its own and
\* returned as a string; nothing is returned when a step fails.
EncryptStringTo(heap, k, s, body, eng) ==
    LET r == EncryptArmoredTo(heap, k, s, <<>>, eng)
    IN  IF r.err # Nil THEN [heap |-> r.heap, str |-> <<>>, err |-> r.err]
        ELSE IF eng = "writeErr" \/ eng = "closeErr"
             THEN [heap |-> r.heap, str |-> <<>>, err |-> Err("engine")]
             ELSE [heap |-> r.heap,
                   str |-> ArmorClose(r.w \o <<"data">> \o body),
                   err |-> Nil]

EncryptString(k, s, body, eng) ==
    LET r == EncryptStringTo(rings, k, s, body, eng)
    IN  /\ rings' = r.heap
        /\ before' = rings
        /\ res' = [NoCall EXCEPT !.op = "EncryptString", !.recv = k, !.eng = eng, !.sign = s,
                                 !.str = r.str, !.err = r.err]

\* kr.EncryptSymmetric(text, canonicalizeText): the ring signs for itself;
\* SeparateKeyAndData splits the message or fails.
EncryptSymmetricTo(heap, k, body, eng) ==
    LET r == EncryptTo(heap, k, k, <<>>, eng)
    IN  IF r.err # Nil THEN [heap |-> r.heap, str |-> <<>>, err |-> r.err]
        ELSE IF eng = "writeErr" \/ eng = "splitErr"
             THEN [heap |-> r.heap, str |-> <<>>, err |-> Err("engine")]
             ELSE [heap |-> r.heap, str |-> <<"keyPacket", "dataPacket">> \o body,
                   err |-> Nil]

EncryptSymmetric(k, body, eng) ==
    LET r == EncryptSymmetricTo(rings, k, body, eng)
    IN  /\ rings' = r.heap
        /\ before' = rings
        /\ res' = [NoCall EXCEPT !.op = "EncryptSymmetric", !.recv = k, !.eng = eng, !.sign = k,
                                 !.str = r.str, !.err = r.err]

-----------------------------------------------------------------------------
(* KeyRing.DetachedSign, SignString *)

\* kr.DetachedSign(w, toSign, canonicalizeText, armored).
DetachedSignTo(heap, k, eng) ==
    LET f     == FirstUnlocked(heap[k].entities)
        heap2 == [heap EXCEPT ![k].entities = f.entities]
    IN  IF f.sel = 0
        THEN [heap |-> heap2, w |-> <<>>, sel |-> 0, err |-> errKeyringNotUnlocked]
        ELSE IF eng # "ok"
             THEN [heap |-> heap2, w |-> <<>>, sel |-> f.sel, err |-> Err("engine")]
             ELSE [heap |-> heap2, w |-> <<"signature">>, sel |-> f.sel, err |-> Nil]

DetachedSign(k, eng) ==
    LET r == DetachedSignTo(rings, k, eng)
    IN  /\ rings' = r.heap
        /\ before' = rings
        /\ res' = [NoCall EXCEPT !.op = "DetachedSign", !.recv = k, !.eng = eng, !.w = r.w,
                                 !.sel = r.sel, !.err = r.err]

\* kr.SignString(message, canonicalizeText): "" and the error, or the signature.
SignString(k, eng) ==
    LET r == DetachedSignTo(rings, k, eng)
    IN  /\ rings' = r.heap
        /\ before' = rings
        /\ res' = [NoCall EXCEPT !.op = "SignString", !.recv = k, !.eng = eng,
                                 !.str = IF r.err # Nil THEN <<>> ELSE r.w,
                                 !.sel = r.sel, !.err = r.err]

-----------------------------------------------------------------------------
(* KeyRing.VerifyString *)

\* openpgp.CheckArmoredDetachedSignature on the two readers: the first call
\* reads them and answers with the verdict on the signature; a later call in
\* the same VerifyString finds the readers at their end and fails.
CheckArmoredDetachedSignature(verdict, calls) ==
    IF calls > 0 THEN Err("engine")
    ELSE IF verdict = "nil" THEN Nil
    ELSE IF verdict = "expired" THEN ErrSignatureExpired
    ELSE Err("engine")

\* A loop that asks the engine whatever the state of the signer's keys.
RECURSIVE VerifyLoopNoGate(_, _, _, _, _)
VerifyLoopNoGate(entities, i, verdict, err, calls) ==
    IF i > Len(entities) THEN [err |-> err, calls |-> calls, done |-> FALSE]
    ELSE LET e == CheckArmoredDetachedSignature(verdict, calls)
         IN  IF e = Nil \/ e = ErrSignatureExpired
             THEN [err |-> e, calls |-> calls + 1, done |-> TRUE]
             ELSE VerifyLoopNoGate(entities, i + 1, verdict, e, calls + 1)

\* A loop that goes on to the next entity after an expired signature.
RECURSIVE VerifyLoopStrict(_, _, _, _, _)
VerifyLoopStrict(entities, i, verdict, err, calls) ==
    IF i > Len(entities) THEN [err |-> err, calls |-> calls, done |-> FALSE]
    ELSE IF entities[i].PrivateKey.present /\ ~entities[i].PrivateKey.Encrypted
         THEN LET e == CheckArmoredDetachedSignature(verdict, calls)
              IN  IF e = Nil
                  THEN [err |-> e, calls |-> calls + 1, done |-> TRUE]
                  ELSE VerifyLoopStrict(entities, i + 1, verdict, e, calls + 1)
         ELSE VerifyLoopStrict(entities, i + 1, verdict, err, calls)

\* The loop over sign.entities from i on; done when it returned from inside.
RECURSIVE VerifyLoop(_, _, _, _, _)
VerifyLoop(entities, i, verdict, err, calls) ==
    IF i > Len(entities) THEN [err |-> err, calls |-> calls, done |-> FALSE]
    ELSE IF entities[i].PrivateKey.present /\ ~entities[i].PrivateKey.Encrypted
         THEN LET e == CheckArmoredDetachedSignature(verdict, calls)
              IN  IF e = Nil \/ e = ErrSignatureExpired
                  THEN [err |-> e, calls |-> calls + 1, done |-> TRUE]
                  ELSE VerifyLoop(entities, i + 1, verdict, e, calls + 1)
         ELSE VerifyLoop(entities, i + 1, verdict, err, calls)

\* kr.VerifyString(message, signature, sign) on heap[k] with signer heap[s].
VerifyResult(heap, k, s, verdict) ==
    LET r == IF s = 0 THEN [err |-> Nil, calls |-> 0, done |-> FALSE]
             ELSE VerifyLoop(heap[s].entities, 1, verdict, Nil, 0)
    IN  [err |-> IF r.done THEN r.err
                 ELSE IF r.err = Nil THEN errKeyringNotUnlocked ELSE r.err,
         calls |-> r.calls]

VerifyString(k, s, verdict) ==
    LET r == VerifyResult(rings, k, s, verdict)
    IN  /\ rings' = rings
        /\ before' = rings
        /\ res' = [NoCall EXCEPT !.op = "VerifyString", !.recv = k, !.sign = s,
                                 !.msg = [NoMessage EXCEPT !.IsSigned = TRUE,
                                                           !.verdict = verdict],
                                 !.err = r.err, !.calls = r.calls]

-----------------------------------------------------------------------------
(* KeyRing.Decrypt, DecryptArmored, DecryptString, Signature.Err *)

SoftOrNil(e) == e = Nil \/ e = ErrSignatureExpired

\* Decrypt that gives up on every error of the engine.
DecryptMessageStrict(m) ==
    IF m.readErr # "nil"
    THEN [stream |-> NoStream, signed |-> FALSE, err |-> Err("engine")]
    ELSE [stream |-> [NoStream EXCEPT !.open = TRUE, !.rest = m.body,
                                      !.fail = m.fail],
          signed |-> m.IsSigned, err |-> Nil]

\* Decrypt that reads the whole body before it returns.
DecryptMessageEager(m) ==
    IF m.readErr = "hard"
    THEN [stream |-> NoStream, signed |-> FALSE, err |-> Err("engine")]
    ELSE [stream |-> [NoStream EXCEPT !.open = TRUE, !.rest = m.body,
                                      !.fail = "eager"],
          signed |-> m.IsSigned,
          err |-> IF m.readErr = "expired" THEN ErrSignatureExpired ELSE Nil]

\* kr.Decrypt(r): openpgp.ReadMessage answers with the message details or an
\* error; ErrSignatureExpired is let through with the details.
DecryptMessage(m) ==
    IF m.readErr = "hard"
    THEN [stream |-> NoStream, signed |-> FALSE, err |-> Err("engine")]
    ELSE [stream |-> [NoStream EXCEPT !.open = TRUE, !.rest = m.body,
                                      !.fail = m.fail],
          signed |-> m.IsSigned,
          err |-> IF m.readErr = "expired" THEN ErrSignatureExpired ELSE Nil]

\* kr.DecryptArmored(r): armor.Decode, the check of the block type, Decrypt.
DecryptArmoredMessage(armor, m) ==
    IF armor = "decodeErr"
    THEN [stream |-> NoStream, signed |-> FALSE, err |-> Err("engine")]
    ELSE IF armor = "wrongType"
         THEN [stream |-> NoStream, signed |-> FALSE, err |-> Err("notPGPMessage")]
         ELSE DecryptMessage(m)

\* The error the signature check leaves in md.SignatureError.
VerdictError(m) ==
    IF ~m.IsSigned \/ m.verdict = "nil" THEN Nil
    ELSE IF m.verdict = "expired" THEN ErrSignatureExpired
    ELSE Err("signatureInvalid")

\* One Read of the decrypted reader: a byte, or the end.  The engine checks
\* the signature when the body reaches its end and stores the result in md.
StreamRead(stream, sigErr, m) ==
    IF stream.rest # <<>>
    THEN [stream |-> [stream EXCEPT !.rest = Tail(stream.rest),
                                    !.read = Append(stream.read, Head(stream.rest))],
          SignatureError |-> IF stream.fail = "eager" THEN VerdictError(m) ELSE sigErr]
    ELSE IF stream.fail = "hard"
         THEN [stream |-> [stream EXCEPT !.err = Err("engine")],
               SignatureError |-> sigErr]
         ELSE IF stream.fail = "expired"
              THEN [stream |-> [stream EXCEPT !.err = ErrSignatureExpired],
                    SignatureError |-> VerdictError(m)]
              ELSE [stream |-> [stream EXCEPT !.eof = TRUE],
                    SignatureError |-> VerdictError(m)]

\* The reader is at its end: end-of-input or an error was reported.
Ended(stream) == stream.eof \/ stream.err # Nil

\* ioutil.ReadAll: Read until the end; end-of-input is no error.
RECURSIVE ReadAll(_, _, _)
ReadAll(stream, sigErr, m) ==
    IF Ended(stream)
    THEN [b |-> stream.read, err |-> stream.err, stream |-> stream,
          SignatureError |-> sigErr]
    ELSE LET r == StreamRead(stream, sigErr, m)
         IN  ReadAll(r.stream, r.SignatureError, m)

\* The string DecryptString was given.
Ciphertext == <<"ciphertext">>

\* kr.DecryptString(encrypted).
DecryptStringResult(armor, m) ==
    LET d == DecryptArmoredMessage(armor, m)
    IN  IF ~SoftOrNil(d.err)
        THEN [str |-> Ciphertext, signed |-> FALSE, err |-> d.err,
              SignatureError |-> Nil]
        ELSE LET a == ReadAll(d.stream, Nil, m)
             IN  IF ~SoftOrNil(a.err)
                 THEN [str |-> Ciphertext, signed |-> FALSE, err |-> a.err,
                       SignatureError |-> Nil]
                 ELSE [str |-> a.b, signed |-> d.signed, err |-> Nil,
                       SignatureError |-> a.SignatureError]

Decrypt(k, m) ==
    LET d == DecryptMessage(m)
    IN  /\ rings' = rings
        /\ before' = rings
        /\ res' = [NoCall EXCEPT !.op = "Decrypt", !.recv = k, !.msg = m,
                                 !.stream = d.stream, !.signed = d.signed,
                                 !.err = d.err,
                                 !.SignatureError =
                                     IF d.stream.fail = "eager"
                                     THEN VerdictError(m) ELSE Nil]

DecryptArmored(k, armor, m) ==
    LET d == DecryptArmoredMessage(armor, m)
    IN  /\ rings' = rings
        /\ before' = rings
        /\ res' = [NoCall EXCEPT !.op = "DecryptArmored", !.recv = k, !.msg = m,
                                 !.armor = armor,
                                 !.stream = d.stream, !.signed = d.signed,
                                 !.err = d.err]

\* The caller reads once from the reader Decrypt or DecryptArmored returned.
Read ==
    /\ res.stream.open /\ ~Ended(res.stream)
    /\ LET r == StreamRead(res.stream, res.SignatureError, res.msg)
       IN  res' = [res EXCEPT !.stream = r.stream,
                              !.SignatureError = r.SignatureError]
    /\ UNCHANGED <<rings, before>>

DecryptString(k, armor, m) ==
    LET d == DecryptStringResult(armor, m)
    IN  /\ rings' = rings
        /\ before' = rings
        /\ res' = [NoCall EXCEPT !.op = "DecryptString", !.recv = k, !.msg = m,
                                 !.armor = armor,
                                 !.str = d.str, !.signed = d.signed, !.err = d.err,
                                 !.SignatureError = d.SignatureError]

\* Signature.Err(): the error stored in the message details.
SignatureErr == res.SignatureError

-----------------------------------------------------------------------------
(* KeyRing.Identities, KeyIds *)

RECURSIVE IdentitiesFrom(_, _)
IdentitiesFrom(entities, i) ==
    IF i > Len(entities) THEN <<>>
    ELSE [j \in 1..Len(entities[i].Identities) |-> entities[i].Identities[j].Name]
         \o IdentitiesFrom(entities, i + 1)

Identities(k) ==
    /\ rings' = rings
    /\ before' = rings
    /\ res' = [NoCall EXCEPT !.op = "Identities", !.recv = k,
                             !.ids = IdentitiesFrom(rings[k].entities, 1)]

KeyIds(k) ==
    /\ rings' = rings
    /\ before' = rings
    /\ res' = [NoCall EXCEPT !.op = "KeyIds", !.recv = k,
                 !.ids = [i \in 1..Len(rings[k].entities) |-> rings[k].entities[i].KeyId]]

-----------------------------------------------------------------------------
(* FilterExpiredKeys *)

\* The loop over the subkeys of one entity, from subkey j on.
RECURSIVE SubkeyExpiry(_, _, _, _)
SubkeyExpiry(subkeys, j, hasExpired, hasUnexpired) ==
    IF j > Len(subkeys)
    THEN [hasExpired |-> hasExpired, hasUnexpired |-> hasUnexpired]
    ELSE IF subkeys[j].KeyExpired
         THEN SubkeyExpiry(subkeys, j + 1, TRUE, hasUnexpired)
         ELSE SubkeyExpiry(subkeys, j + 1, hasExpired, TRUE)

\* An entity without an unexpired subkey read as "totally expired", subkeys
\* or not.
EntityExpiryNoneUnexpired(entity) ==
    LET x == SubkeyExpiry(entity.Subkeys, 1, FALSE, FALSE)
    IN  IF ~x.hasUnexpired THEN "totallyExpired" ELSE "unexpired"

\* How one entity counts for its ring.
EntityExpiry(entity) ==
    LET x == SubkeyExpiry(entity.Subkeys, 1, FALSE, FALSE)
    IN  IF x.hasExpired /\ ~x.hasUnexpired THEN "totallyExpired"
        ELSE IF x.hasUnexpired THEN "unexpired" ELSE "neither"

\* The loop over the entities of one ring, from entity i on.
RECURSIVE RingExpiry(_, _, _, _)
RingExpiry(entities, i, keyRingHasUnexpiredEntity, keyRingHasTotallyExpiredEntity) ==
    IF i > Len(entities)
    THEN [keyRingHasUnexpiredEntity |-> keyRingHasUnexpiredEntity,
          keyRingHasTotallyExpiredEntity |-> keyRingHasTotallyExpiredEntity]
    ELSE LET x == EntityExpiry(entities[i])
         IN  RingExpiry(entities, i + 1,
                        keyRingHasUnexpiredEntity \/ x = "unexpired",
                        keyRingHasTotallyExpiredEntity \/ x = "totallyExpired")

\* The loop over contactKeys (pointers into heap), from position k on.
RECURSIVE FilterLoop(_, _, _, _, _)
FilterLoop(heap, contactKeys, k, filteredKeys, hasExpiredEntity) ==
    IF k > Len(contactKeys)
    THEN [filteredKeys |-> filteredKeys, hasExpiredEntity |-> hasExpiredEntity]
    ELSE LET x == RingExpiry(heap[contactKeys[k]].entities, 1, FALSE, FALSE)
         IN  IF x.keyRingHasUnexpiredEntity
             THEN FilterLoop(heap, contactKeys, k + 1,
                             Append(filteredKeys, contactKeys[k]), hasExpiredEntity)
             ELSE FilterLoop(heap, contactKeys, k + 1, filteredKeys,
                             hasExpiredEntity \/ x.keyRingHasTotallyExpiredEntity)

FilterResult(heap, contactKeys) ==
    LET r == FilterLoop(heap, contactKeys, 1, <<>>, FALSE)
    IN  [filteredKeys |-> r.filteredKeys,
         err |-> IF Len(r.filteredKeys) = 0 /\ r.hasExpiredEntity
                 THEN Err("allKeysExpired") ELSE Nil]

FilterExpiredKeys(contactKeys) ==
    LET r == FilterResult(rings, contactKeys)
    IN  /\ rings' = rings
        /\ before' = rings
        /\ res' = [NoCall EXCEPT !.op = "FilterExpiredKeys",
                                 !.contactKeys = contactKeys,
                                 !.filteredKeys = r.filteredKeys, !.err = r.err]

-----------------------------------------------------------------------------
(* Filtering: a list of contact key rings whose subkeys expire or not *)

ContactSubkeys == { MkSubkey(NoPrivateKey, TRUE, FALSE, TRUE, x) : x \in BOOLEAN }

ContactEntities ==
    { MkEntity(NoPrivateKey, sks, 0) : sks \in SeqsUpTo(ContactSubkeys, MaxSubkeys) }

RECURSIVE Sum(_)
Sum(s) == IF s = <<>> THEN 0 ELSE Head(s) + Sum(Tail(s))

\* The entities es cut into consecutive rings of the given lengths.
RECURSIVE Cut(_, _)
Cut(es, lens) ==
    IF lens = <<>> THEN <<>>
    ELSE <<MkKeyRing(SubSeq(es, 1, Head(lens)), "")>>
         \o Cut(SubSeq(es, Head(lens) + 1, Len(es)), Tail(lens))

InitFilter ==
    /\ \E es \in SeqsUpTo(ContactEntities, MaxContactEntities) :
          \E lens \in SeqsUpTo(0..MaxContactEntities, MaxRings) :
             /\ Sum(lens) = Len(es)
             /\ rings = Cut(Numbered(es), lens)
    /\ before = rings
    /\ res = NoCall

\* The whole list is filtered, in its order.
NextFilter ==
    FilterExpiredKeys([k \in 1..Len(rings) |-> k])

SpecFilter == InitFilter /\ [][NextFilter]_vars

-----------------------------------------------------------------------------
(* The key rings of a client: a recipient's ring and a signer's ring *)

\* A public key and a private key under "p1", each with a public encryption
\* subkey; the subkey of the public key is expired.
MainEntities ==
    { MkEntity(NoPrivateKey,
               <<MkSubkey(NoPrivateKey, TRUE, FALSE, TRUE, TRUE)>>, 0),
      MkEntity(LockedKey("p1"),
               <<MkSubkey(NoPrivateKey, TRUE, TRUE, TRUE, FALSE)>>, 0) }

\* Ring 1 is the recipient's (kr), ring 2 a signer's; they hold MaxEntities
\* entities between them.
Init ==
    /\ \E es \in SeqsUpTo(MainEntities, MaxEntities) :
          \E n \in 0..Len(es) :
             rings = Cut(Numbered(es), <<n, Len(es) - n>>)
    /\ before = rings
    /\ res = NoCall

RingIds == {1, 2}

\* sign: nil (0), the ring itself, or the signer's ring.
Signers == {0} \cup RingIds

\* An armored input: the armor is broken, of another type, or holds a message.
ArmoredInputs(messages) ==
    {<<"decodeErr", NoMessage>>, <<"wrongType", NoMessage>>}
    \cup {<<"ok", m>> : m \in messages}

\* The messages with an empty body that is read to its end.
ShortMessages == {m \in Messages : m.body = <<>> /\ m.fail = "none"}

Next ==
    \/ \E k \in RingIds, p \in Passphrases : Unlock(k, p)
    \/ \E k \in RingIds, p \in Passphrases : GetSigningEntity(k, p)
    \/ \E s \in Signers, eng \in {"ok", "encryptErr"} : Encrypt(1, s, eng)
    \/ \E s \in Signers, eng \in {"ok", "armorErr", "encryptErr"} :
          EncryptArmored(1, s, eng)
    \/ \E s \in Signers, b \in Bodies,
          eng \in {"ok", "encryptErr", "writeErr", "closeErr"} :
          EncryptString(1, s, b, eng)
    \/ \E k \in RingIds, b \in Bodies,
          eng \in {"ok", "encryptErr", "writeErr", "splitErr"} :
          EncryptSymmetric(k, b, eng)
    \/ \E k \in RingIds, eng \in {"ok", "signErr"} : DetachedSign(k, eng)
    \/ \E k \in RingIds, eng \in {"ok", "signErr"} : SignString(k, eng)
    \/ \E s \in Signers, v \in {"nil", "expired", "invalid"} : VerifyString(1, s, v)
    \/ \E m \in ShortMessages : Decrypt(1, m)
    \/ \E x \in ArmoredInputs(ShortMessages) : DecryptArmored(1, x[1], x[2])
    \/ Read
    \/ \E x \in ArmoredInputs(ShortMessages) : DecryptString(1, x[1], x[2])
    \/ \E k \in RingIds : Identities(k)
    \/ \E k \in RingIds : KeyIds(k)
    \/ \E ck \in SeqsUpTo(RingIds, MaxRings) : FilterExpiredKeys(ck)

Spec == Init /\ [][Next]_vars

-----------------------------------------------------------------------------
(* Decrypting: every message, read byte by byte *)

NextDecrypt ==
    \/ \E m \in Messages : Decrypt(1, m)
    \/ \E x \in ArmoredInputs(Messages) : DecryptArmored(1, x[1], x[2])
    \/ Read
    \/ \E x \in ArmoredInputs(Messages) : DecryptString(1, x[1], x[2])

SpecDecrypt == Init /\ [][NextDecrypt]_vars

-----------------------------------------------------------------------------
(* Unlocking: one key ring whose components are protected by passphrases *)

UnlockSubkeys ==
    { MkSubkey(LockedKey("p1"), TRUE, TRUE, FALSE, FALSE),    \* storage encryption
      MkSubkey(LockedKey("p2"), FALSE, FALSE, FALSE, FALSE),  \* flags not valid
      MkSubkey(LockedKey("p2"), TRUE, FALSE, FALSE, FALSE) }  \* signing only

\* A public entity, or a private one with private subkeys.
UnlockEntities ==
    { MkEntity(NoPrivateKey, <<>>, 0) }
    \cup { MkEntity(LockedKey(p), sks, 0) :
             p \in Passphrases, sks \in SeqsUpTo(UnlockSubkeys, MaxSubkeys) }

InitUnlock ==
    /\ rings \in { <<MkKeyRing(Numbered(es), "")>> :
                     es \in SeqsUpTo(UnlockEntities, MaxEntities) \ {<<>>} }
    /\ before = rings
    /\ res = NoCall

NextUnlock ==
    \E p \in Passphrases : Unlock(1, p)

SpecUnlock == InitUnlock /\ [][NextUnlock]_vars

-----------------------------------------------------------------------------
(* Construction: readFrom and the functions that return a KeyRing *)

\* What openpgp.ReadKeyRing and openpgp.ReadArmoredKeyRing answer for an
\* input: up to n entities and no error (no entity for an input without a key
\* packet), or an error and no entity.
ParseOutcomes(n) ==
    { [entities |-> Numbered([i \in 1..m |-> MkEntity(LockedKey("p1"), <<>>, 0)]),
       err |-> Nil] : m \in 0..n }
    \cup { [entities |-> <<>>, err |-> Err("engine")] }

\* The input without a byte.
EmptyInput == [entities |-> <<>>, err |-> Nil]

errNoKey == Err("pm-crypto: key ring doesn't contain any key")

\* kr.readFrom(r, armored), parsed being what the engine reads from r.
readFrom(kr, parsed) ==
    IF parsed.err # Nil THEN [kr |-> kr, err |-> parsed.err]
    ELSE IF Len(parsed.entities) = 0 THEN [kr |-> kr, err |-> errNoKey]
    ELSE [kr |-> [kr EXCEPT !.entities = kr.entities \o parsed.entities],
          err |-> Nil]

\* &KeyRing{}
ZeroKeyRing == MkKeyRing(<<>>, "")

ReadKeyRing(parsed) ==
    LET r == readFrom(ZeroKeyRing, parsed)
    IN  /\ Len(rings) < MaxRings
        /\ before' = rings
        /\ rings' = Append(rings, r.kr)
        /\ res' = [NoCall EXCEPT !.op = "ReadKeyRing", !.recv = Len(rings) + 1,
                                 !.err = r.err]

ReadArmoredKeyRing(parsed) ==
    LET r == readFrom(ZeroKeyRing, parsed)
    IN  /\ Len(rings) < MaxRings
        /\ before' = rings
        /\ rings' = Append(rings, r.kr)
        /\ res' = [NoCall EXCEPT !.op = "ReadArmoredKeyRing",
                                 !.recv = Len(rings) + 1, !.err = r.err]

BuildKeyRing(parsed) ==
    LET r == readFrom(ZeroKeyRing, parsed)
    IN  /\ Len(rings) < MaxRings
        /\ before' = rings
        /\ rings' = Append(rings, r.kr)
        /\ res' = [NoCall EXCEPT !.op = "BuildKeyRing", !.recv = Len(rings) + 1,
                                 !.err = r.err]

\* The error of BuildKeyRing is dropped.
BuildKeyRingNoError(parsed) ==
    LET r == readFrom(ZeroKeyRing, parsed)
    IN  /\ Len(rings) < MaxRings
        /\ before' = rings
        /\ rings' = Append(rings, r.kr)
        /\ res' = [NoCall EXCEPT !.op = "BuildKeyRingNoError",
                                 !.recv = Len(rings) + 1]

\* armorUtils.Unarmor(key): the bytes inside the armor, or an error and no
\* byte.  Bytes are represented by what the engine parses from them.
Unarmor(armor, parsed) ==
    IF armor = "ok" THEN [keyRaw |-> parsed, err |-> Nil]
    ELSE [keyRaw |-> EmptyInput, err |-> Err("armor")]

\* The error of Unarmor is overwritten by the engine's; the ring is returned
\* whatever the engine read.
BuildKeyRingArmored(armor, parsed) ==
    LET keyEntries == Unarmor(armor, parsed).keyRaw
    IN  /\ Len(rings) < MaxRings
        /\ before' = rings
        /\ rings' = Append(rings, MkKeyRing(keyEntries.entities, ""))
        /\ res' = [NoCall EXCEPT !.op = "BuildKeyRingArmored",
                                 !.recv = Len(rings) + 1, !.armor = armor,
                                 !.err = keyEntries.err]

\* The loop of UnmarshalJSON over keyObjs from position i: the error of
\* readFrom is not looked at.
RECURSIVE UnmarshalLoop(_, _, _)
UnmarshalLoop(kr, keyObjs, i) ==
    IF i > Len(keyObjs) THEN kr
    ELSE LET ko  == keyObjs[i]
             kr1 == IF i = 1 THEN [kr EXCEPT !.FirstKeyID = ko.ID] ELSE kr
         IN  UnmarshalLoop(readFrom(kr1, ko.PrivateKey).kr, keyObjs, i + 1)

UnmarshalResult(kr, doc) ==
    LET kr0 == [kr EXCEPT !.entities = <<>>]
    IN  IF doc.err # Nil THEN [kr |-> kr0, err |-> doc.err]
        ELSE IF Len(doc.keyObjs) = 0 THEN [kr |-> kr0, err |-> Nil]
        ELSE [kr |-> UnmarshalLoop(kr0, doc.keyObjs, 1), err |-> Nil]

\* kr.UnmarshalJSON(b) for an existing ring k, or for a zero KeyRing the
\* decoder was handed (k = Len(rings) + 1).
UnmarshalJSON(k, doc) ==
    LET kr == IF k <= Len(rings) THEN rings[k] ELSE ZeroKeyRing
        r  == UnmarshalResult(kr, doc)
    IN  /\ k <= Len(rings) + 1
        /\ before' = rings
        /\ rings' = IF k <= Len(rings) THEN [rings EXCEPT ![k] = r.kr]
                    ELSE Append(rings, r.kr)
        /\ res' = [NoCall EXCEPT !.op = "UnmarshalJSON", !.recv = k,
                                 !.n = Len(doc.keyObjs), !.err = r.err]

\* JSON documents: one that does not decode, or a list of key objects, each
\* with its ID and the armored key the engine parses (one entity at most).
Documents ==
    { [err |-> Err("json"), keyObjs |-> <<>>] }
    \cup { [err |-> Nil,
            keyObjs |-> [i \in 1..Len(s) |-> [ID |-> i, PrivateKey |-> s[i]]]] :
             s \in SeqsUpTo(ParseOutcomes(1), MaxKeyObjects) }

InitBuild ==
    /\ rings = <<>>
    /\ before = rings
    /\ res = NoCall

NextBuild ==
    \/ \E parsed \in ParseOutcomes(MaxEntities) : ReadKeyRing(parsed)
    \/ \E parsed \in ParseOutcomes(MaxEntities) : ReadArmoredKeyRing(parsed)
    \/ \E parsed \in ParseOutcomes(MaxEntities) : BuildKeyRing(parsed)
    \/ \E parsed \in ParseOutcomes(MaxEntities) : BuildKeyRingNoError(parsed)
    \/ \E armor \in {"ok", "err"}, parsed \in ParseOutcomes(MaxEntities) :
          BuildKeyRingArmored(armor, parsed)
    \/ \E k \in 1..MaxRings, doc \in Documents : UnmarshalJSON(k, doc)

SpecBuild == InitBuild /\ [][NextBuild]_vars

-----------------------------------------------------------------------------
(* Properties of Unlock *)

\* Every component position of a ring: <<i, 0>> and <<i, j>> for each subkey j.
Positions(entities) ==
    UNION { {<<i, j>> : j \in 0..Len(entities[i].Subkeys)} : i \in 1..Len(entities) }

\* The private-key components of a ring.
IsComponent(entities, c) == GetKey(entities, c).present

\* The components a passphrase is applied to: primary keys, and subkeys that
\* can encrypt or whose flags are not valid.
IsAttempted(entities, c) ==
    /\ IsComponent(entities, c)
    /\ \/ c[2] = 0
       \/ ~entities[c[1]].Subkeys[c[2]].FlagsValid
       \/ entities[c[1]].Subkeys[c[2]].FlagEncryptStorage
       \/ entities[c[1]].Subkeys[c[2]].FlagEncryptCommunications

NotAfter(d, c) == d[1] < c[1] \/ (d[1] = c[1] /\ d[2] <= c[2])

\* An attempted component still encrypted that the passphrase opens / does not open.
IsOpened(entities, c, p) ==
    /\ IsAttempted(entities, c)
    /\ GetKey(entities, c).Encrypted /\ GetKey(entities, c).pass = p
IsRefused(entities, c, p) ==
    /\ IsAttempted(entities, c)
    /\ GetKey(entities, c).Encrypted /\ GetKey(entities, c).pass # p

\* The error of the attempt on the last refused component, in ring order.
LastRefusal(entities, p) ==
    LET last == CHOOSE c \in Positions(entities) :
                    /\ IsRefused(entities, c, p)
                    /\ \A d \in Positions(entities) :
                          IsRefused(entities, d, p) => NotAfter(d, c)
    IN  ErrAt("ErrDecrypt",
              Cardinality({d \in Positions(entities) :
                              IsAttempted(entities, d) /\ NotAfter(d, last)}))

\* The first two sentences of C1, for one Unlock step from entities to after.
UnlockOutcome(entities, after, p, err) ==
    /\ (\E c \in Positions(entities) : IsOpened(entities, c, p)) => err = Nil
    /\ err # Nil =>
         /\ \A c \in Positions(entities) : ~IsOpened(entities, c, p)
         /\ \E c \in Positions(entities) : IsRefused(entities, c, p)
         /\ err = LastRefusal(entities, p)
         /\ after = entities

\* C1 (as amended): on a ring with at least one private-key component, Unlock
\* succeeds whenever the passphrase opens at least one still-encrypted
\* component, fails only when it opened none, then with the error of the last
\* component attempted; after a successful call the decrypted components are
\* exactly those that match the passphrase or were already decrypted before
\* the call, and every other component is still encrypted.
C1_UnlockPartialSuccess ==
    ( /\ res.op = "Unlock"
      /\ \E c \in Positions(before[res.recv].entities) :
            IsAttempted(before[res.recv].entities, c) ) =>
        LET entities == before[res.recv].entities
            after    == rings[res.recv].entities
            p        == res.pass
        IN  /\ UnlockOutcome(entities, after, p, res.err)
            /\ res.err = Nil =>
                 \A c \in Positions(entities) :
                    IsComponent(entities, c) =>
                       ( ~GetKey(after, c).Encrypted <=>
                           (IsOpened(entities, c, p) \/ ~GetKey(entities, c).Encrypted) )

\* A successful Unlock that opened a component and left another one encrypted.
C1_Witness ==
    /\ res.op = "Unlock" /\ res.err = Nil /\ res.n > 0
    /\ \E c \in Positions(rings[res.recv].entities) :
          /\ IsAttempted(rings[res.recv].entities, c)
          /\ GetKey(rings[res.recv].entities, c).Encrypted
    /\ \E c \in Positions(rings[res.recv].entities) :
          /\ IsAttempted(rings[res.recv].entities, c)
          /\ ~GetKey(rings[res.recv].entities, c).Encrypted

\* C1 as written: after a successful call on a ring whose components use
\* different passphrases, exactly the components matching the passphrase are
\* decrypted and the others are still encrypted.
C1_AsWritten ==
    ( /\ res.op = "Unlock"
      /\ \E c \in Positions(before[res.recv].entities) :
            IsAttempted(before[res.recv].entities, c) ) =>
        LET entities == before[res.recv].entities
            after    == rings[res.recv].entities
            p        == res.pass
        IN  /\ UnlockOutcome(entities, after, p, res.err)
            /\ ( /\ res.err = Nil
                 /\ \E c, d \in Positions(entities) :
                       /\ IsAttempted(entities, c) /\ IsAttempted(entities, d)
                       /\ GetKey(entities, c).pass # GetKey(entities, d).pass ) =>
                 \A c \in Positions(entities) :
                    IsAttempted(entities, c) =>
                       (~GetKey(after, c).Encrypted <=> GetKey(after, c).pass = p)

-----------------------------------------------------------------------------
(* Properties of FilterExpiredKeys *)

HasUnexpiredSubkey(e) == \E j \in 1..Len(e.Subkeys) : ~e.Subkeys[j].KeyExpired
AllSubkeysExpired(e) ==
    /\ Len(e.Subkeys) >= 1
    /\ \A j \in 1..Len(e.Subkeys) : e.Subkeys[j].KeyExpired

RingKept(k) ==
    \E i \in 1..Len(rings[k].entities) : HasUnexpiredSubkey(rings[k].entities[i])
RingTotallyExpired(k) ==
    /\ ~RingKept(k)
    /\ \E i \in 1..Len(rings[k].entities) : AllSubkeysExpired(rings[k].entities[i])

C9_OnlyUnexpiredParts ==
    res.op = "FilterExpiredKeys" =>
        \A x \in 1..Len(res.filteredKeys) :
            \A i \in 1..Len(rings[res.filteredKeys[x]].entities) :
                ~AllSubkeysExpired(rings[res.filteredKeys[x]].entities[i])

-----------------------------------------------------------------------------
(* Properties of Encrypt, VerifyString and of the frame *)

HasUnlockedEntity(ring) ==
    \E i \in 1..Len(ring.entities) :
        ring.entities[i].PrivateKey.present /\ ~ring.entities[i].PrivateKey.Encrypted

HasLockedEntity(ring) ==
    \E i \in 1..Len(ring.entities) :
        ring.entities[i].PrivateKey.present /\ ring.entities[i].PrivateKey.Encrypted

EncryptOps == {"Encrypt", "EncryptArmored", "EncryptString", "EncryptSymmetric"}

\* C3: an encrypt operation given a signer ring without an entity whose
\* private key is present and decrypted fails with errKeyringNotUnlocked, has
\* written nothing to the caller's writer and returns no writer and no string
\* (stated for the calls in which no collaborator fails).
C3_NoPartialOutput ==
    ( /\ res.op \in EncryptOps /\ res.eng = "ok"
      /\ res.sign # 0 /\ ~HasUnlockedEntity(before[res.sign]) ) =>
        /\ res.err = errKeyringNotUnlocked
        /\ res.w = <<>> /\ ~res.wc /\ res.str = <<>>

\* C6: VerifyString fails with errKeyringNotUnlocked, without a call of the
\* engine's check, whenever sign is nil or has no entity with a present,
\* decrypted private key; with such an entity, whichever it is, a signature the
\* engine confirms is accepted.
C6_VerifyGate ==
    res.op = "VerifyString" =>
        /\ (res.sign = 0 \/ ~HasUnlockedEntity(before[res.sign])) =>
              (res.err = errKeyringNotUnlocked /\ res.calls = 0)
        /\ ( /\ res.sign # 0 /\ HasUnlockedEntity(before[res.sign])
             /\ res.msg.verdict = "nil" ) => res.err = Nil

\* A signature the engine would confirm, refused for a ring of locked keys.
C6_Witness ==
    /\ res.op = "VerifyString" /\ res.sign # 0 /\ res.msg.verdict = "nil"
    /\ HasLockedEntity(rings[res.sign]) /\ ~HasUnlockedEntity(rings[res.sign])
    /\ res.err = errKeyringNotUnlocked

\* C7 (as amended): when the engine's check reports ErrSignatureExpired,
\* VerifyString stops at that check and returns ErrSignatureExpired itself:
\* no errKeyringNotUnlocked, no other error, no further check, but not the nil
\* that a confirmed, unexpired signature gets.
C7_ExpiredIsReturned ==
    ( /\ res.op = "VerifyString" /\ res.msg.verdict = "expired"
      /\ res.sign # 0 /\ HasUnlockedEntity(before[res.sign]) ) =>
        res.err = ErrSignatureExpired /\ res.calls = 1

\* An expired signature checked for a signer ring with an unlocked key.
C7_Witness ==
    /\ res.op = "VerifyString" /\ res.msg.verdict = "expired"
    /\ res.sign # 0 /\ HasUnlockedEntity(rings[res.sign])
    /\ res.err = ErrSignatureExpired

\* C7 as written: the caller gets the same result as for a confirmed,
\* unexpired signature.
C7_AsWritten ==
    ( /\ res.op = "VerifyString" /\ res.msg.verdict = "expired"
      /\ res.sign # 0 /\ HasUnlockedEntity(before[res.sign]) ) =>
        res.err = Nil

\* An entity that differs from what it was at most by a private key that was
\* encrypted and is decrypted.
OnlyDecrypted(was, is) ==
    /\ is = [was EXCEPT !.PrivateKey.Encrypted = is.PrivateKey.Encrypted]
    /\ is.PrivateKey.Encrypted => was.PrivateKey.Encrypted

\* C10 (as amended): after construction only Unlock and GetSigningEntity
\* change a key ring; GetSigningEntity leaves the entity sequence alone and
\* only decrypts primary keys; every other operation leaves every ring, its
\* entity sequence and every encrypted flag, as it found them.
C10_Frame ==
    /\ res.op \notin {"none", "Unlock", "GetSigningEntity"} => rings = before
    /\ res.op = "GetSigningEntity" =>
          \A k \in DOMAIN rings :
             /\ Len(rings[k].entities) = Len(before[k].entities)
             /\ \A i \in 1..Len(rings[k].entities) :
                   OnlyDecrypted(before[k].entities[i], rings[k].entities[i])

\* An encrypt-and-sign call refused for a signer ring of locked keys.
C10_Witness ==
    /\ res.op = "EncryptString" /\ res.sign # 0
    /\ HasLockedEntity(rings[res.sign]) /\ res.err = errKeyringNotUnlocked
    /\ rings = before

\* C10 as written: Unlock is the only operation that changes a key ring.
C10_AsWritten ==
    res.op \notin {"none", "Unlock"} => rings = before

-----------------------------------------------------------------------------
(* Properties of Decrypt and of Signature *)

DecryptOps == {"Decrypt", "DecryptArmored"}

\* The engine or the armor codec failed with an error other than
\* ErrSignatureExpired before the reader was handed out / before the end.
FailedToOpen == res.armor # "ok" \/ res.msg.readErr = "hard"
FailedToRead == FailedToOpen \/ res.msg.fail = "hard"

\* C4: when the engine reports ErrSignatureExpired, the decrypted content is
\* still returned with a Signature whose error is ErrSignatureExpired and the
\* operation is no hard error; any other error of the engine ends the
\* operation with that error and neither content nor Signature.
C4_ExpiredTolerated ==
    /\ res.op = "DecryptString" =>
          /\ (~FailedToRead /\ res.msg.verdict = "expired") =>
                /\ res.err = Nil /\ res.str = res.msg.body
                /\ res.signed /\ SignatureErr = ErrSignatureExpired
          /\ FailedToRead =>
                /\ ~SoftOrNil(res.err)
                /\ res.str = Ciphertext /\ ~res.signed
    /\ res.op \in DecryptOps =>
          /\ (~FailedToOpen /\ res.msg.verdict = "expired") =>
                /\ SoftOrNil(res.err) /\ res.stream.open /\ res.signed
                /\ (Ended(res.stream) /\ SoftOrNil(res.stream.err)) =>
                      /\ res.stream.read = res.msg.body
                      /\ SignatureErr = ErrSignatureExpired
          /\ FailedToOpen =>
                /\ ~SoftOrNil(res.err)
                /\ ~res.stream.open /\ ~res.signed

\* DecryptString of a message for which ReadMessage reports ErrSignatureExpired.
C4_Witness ==
    /\ res.op = "DecryptString" /\ res.msg.readErr = "expired"
    /\ res.msg.body # <<>> /\ res.str = res.msg.body
    /\ res.err = Nil /\ res.signed /\ SignatureErr = ErrSignatureExpired

\* What a caller concludes from Signature.Err(): nil is a valid signature.
Outcome ==
    IF SignatureErr = Nil THEN "Valid"
    ELSE IF SignatureErr = ErrSignatureExpired THEN "Expired" ELSE "Invalid"

\* C5 (as amended): a Signature returned by Decrypt has no not-yet-checked
\* outcome; its error is nil, which reads as valid, in every state before the
\* decrypted reader has reached its end, and it is the engine's result from
\* the moment the reader reports end-of-input.
C5_UnsetUntilEnd ==
    (res.op \in DecryptOps /\ res.signed) =>
        /\ ~Ended(res.stream) => (SignatureErr = Nil /\ Outcome = "Valid")
        /\ res.stream.eof => SignatureErr = VerdictError(res.msg)

\* A signed message of invalid signature, its body read but not yet its end.
C5_Witness ==
    /\ res.op = "Decrypt" /\ res.signed /\ res.msg.verdict = "invalid"
    /\ res.stream.read # <<>> /\ ~Ended(res.stream)
    /\ SignatureErr = Nil

\* C5 as written: before the reader is drained the outcome is "not yet
\* checked", never "valid".
C5_AsWritten ==
    (res.op \in DecryptOps /\ res.signed /\ ~Ended(res.stream)) =>
        Outcome = "NotYetChecked"

-----------------------------------------------------------------------------
(* Properties of construction *)

BuildOps ==
    {"ReadKeyRing", "ReadArmoredKeyRing", "BuildKeyRing", "BuildKeyRingArmored",
     "UnmarshalJSON"}

\* C2: no construction path returns success with a ring of zero entities;
\* one that parsed no entity reports an error.
C2_NoEmptyRing ==
    (res.op \in BuildOps /\ res.err = Nil) =>
        Len(rings[res.recv].entities) > 0

-----------------------------------------------------------------------------
(* Properties of a repeated Unlock *)

\* Every component Unlock would attempt is decrypted.
AllAttemptedDecrypted(entities) ==
    \A c \in Positions(entities) :
        IsAttempted(entities, c) => ~GetKey(entities, c).Encrypted

\* An Unlock that has just succeeded with a passphrase that decrypted a
\* component, followed by an Unlock of the same ring with the same passphrase,
\* or with any passphrase when every component is decrypted.
SecondUnlock ==
    /\ res.op = "Unlock" /\ res.err = Nil /\ res.n > 0
    /\ res'.op = "Unlock" /\ res'.recv = res.recv
    /\ \/ res'.pass = res.pass
       \/ AllAttemptedDecrypted(rings[res.recv].entities)

\* C11: Unlock is idempotent; the second Unlock returns success as the first
\* did, changes no component's encrypted flag, and the first entity with a
\* present, decrypted private key is the same after both calls.
C11_UnlockIdempotent ==
    [][ SecondUnlock =>
          /\ res'.err = Nil
          /\ rings' = rings
          /\ FirstUnlocked(rings'[res.recv].entities).sel
                = FirstUnlocked(rings[res.recv].entities).sel ]_vars

====
